---- MODULE Spec2Model ----
(***************************************************************************)
(* RemoteAgent (agents/experimental/remote/agent.ts): one run of the ACP   *)
(* streaming client.  _run issues the streaming request, drains the event  *)
(* sequence frame by frame (JSON.parse + one notification per frame),      *)
(* then classifies the last parsed value and, on run.completed, appends    *)
(* the inputs and the assistant message to the caller's memory.            *)
(***************************************************************************)
EXTENDS Integers, Sequences, FiniteSets, TLC

(* ---------------------------------------------------------------------- *)
(* Bounds of the model                                                     *)
(* ---------------------------------------------------------------------- *)
MaxFrames == 2      \* frames the server sends in one run
MaxInputs == 2      \* length of an array input

(* ---------------------------------------------------------------------- *)
(* Values                                                                  *)
(* ---------------------------------------------------------------------- *)
Undefined == "<undefined>"   \* JavaScript undefined (absent property)

\* A JSON value as JSON.parse returns it.  kind: "null", "number" or "object";
\* type = v.type, message = v.run?.error?.message, output = v.run.output as
\* output[i][j] = the content of part j of output i.
JNull == [kind |-> "null", num |-> 0, type |-> Undefined, message |-> Undefined, output |-> <<>>]
JNumber(n) == [kind |-> "number", num |-> n, type |-> Undefined, message |-> Undefined, output |-> <<>>]
JEvent(t, m, o) == [kind |-> "object", num |-> 0, type |-> t, message |-> m, output |-> o]

\* JavaScript truthiness: null and 0 are falsy, every object is truthy.
Truthy(v) == CASE v.kind = "null" -> FALSE
               [] v.kind = "number" -> v.num # 0
               [] OTHER -> TRUE

\* run.output of a run.completed event
OutNone == <<>>
OutNoParts == << <<>> >>
OutHello == << <<"Hello">> >>
OutABC == << <<"a", "b">>, <<"c">> >>
Outputs == {OutNone, OutNoParts, OutHello, OutABC}

\* The JSON values a frame's data may denote
Events ==
  {JNull, JNumber(0), JNumber(5),
   JEvent("run.in-progress", Undefined, <<>>),
   JEvent("run.failed", "boom", <<>>),
   JEvent("run.failed", Undefined, <<>>),
   JEvent("run.failed", "", <<>>)}
  \cup {JEvent("run.completed", Undefined, o) : o \in Outputs}

\* A protocol event read off the stream.  event.data is text: either the JSON
\* text of a value (wellFormed) or something JSON.parse rejects.
Malformed == [data |-> [wellFormed |-> FALSE, denotes |-> JNull]]
Frame(v) == [data |-> [wellFormed |-> TRUE, denotes |-> v]]
Frames == {Malformed} \cup {Frame(v) : v \in Events}

\* JSON.parse(event.data): the value, or a SyntaxError
JSONparse(data) ==
  IF data.wellFormed THEN [threw |-> FALSE, value |-> data.denotes]
                     ELSE [threw |-> TRUE, value |-> JNull]

\* One element of input.input: a plain string or a Message
Str(s) == [isString |-> TRUE, role |-> "", content |-> s]
Msg(r, c) == [isString |-> FALSE, role |-> r, content |-> c]
Items == {Str("hi"), Msg("system", "be brief")}

RECURSIVE SeqsUpTo(_, _)
SeqsUpTo(S, n) ==
  IF n = 0 THEN {<<>>}
  ELSE LET shorter == SeqsUpTo(S, n - 1)
       IN  shorter \cup {Append(s, x) : s \in {t \in shorter : Len(t) = n - 1}, x \in S}

\* input.input: Message | string | Message[] | string[]
Inputs ==
  {[isArray |-> FALSE, items |-> <<x>>] : x \in Items}
  \cup {[isArray |-> TRUE, items |-> s] : s \in SeqsUpTo(Items, MaxInputs)}

\* Domain messages as memory holds them
UserMessage(text) == [role |-> "user", text |-> text, meta |-> JNull]
AssistantMessage(text, event) == [role |-> "assistant", text |-> text, meta |-> event]

\* The caller's memory before the run
InitialMemory == << UserMessage("earlier") >>

AgentName == "chat"
PARSE_ERROR == "Error parsing JSON"
NO_EVENT == "No event received from agent."
DEFAULT_FAILURE == "Something went wrong with the agent communication."
NO_RESPONSE == "No response from agent."

VARIABLES
  pc,          \* position of _run
  input,       \* the run's input
  requests,    \* the streaming requests made: endpoint name and body
  stream,      \* the frames the server sends on this run's connection
  read,        \* how many of them the generator has yielded
  eventData,   \* let eventData
  notes,       \* notifications emitted on context.emitter, in order
  cancelled,   \* context.signal.aborted
  memory,      \* this.memory
  i,           \* input messages addMany has appended
  outcome      \* how the promise settled

(* ====================================================================== *)
(* Custom-role masking (examples/internals/fetcher.ts)                     *)
(* ====================================================================== *)
MaxPieces == 3      \* pieces a text is put together from
MaxParts == 2       \* parts of a message content

\* Texts are sequences of characters, so that split("#") is computed.
HASH == "#"
CUSTOM_ROLE == <<"c", "u", "s", "t", "o", "m", "_", "r", "o", "l", "e">>
USER == <<"u", "s", "e", "r">>
ASSISTANT == <<"a", "s", "s", "i", "s", "t", "a", "n", "t">>
SYSTEM == <<"s", "y", "s", "t", "e", "m">>
HI == <<"h", "i">>
EMPTY == <<>>
MARK == <<HASH>> \o CUSTOM_ROLE \o <<HASH>>
RoleUndefined == <<Undefined>>    \* a role property that holds undefined

MASKED_SYSTEM == MARK \o SYSTEM \o <<HASH>>

Pieces == {<<HASH>>, CUSTOM_ROLE, MARK, MASKED_SYSTEM, SYSTEM, HI}

\* the texts made of at most n pieces
RECURSIVE Concats(_)
Concats(n) ==
  IF n = 0 THEN {EMPTY}
  ELSE LET shorter == Concats(n - 1)
       IN shorter \cup {p \o t : p \in Pieces, t \in shorter}

Texts == Concats(MaxPieces)

\* A content part.  text and content are the part's properties of those
\* names; an absent property and an empty string are both falsy and both
\* written EMPTY.
TextPart(t) == [type |-> "text", text |-> t, content |-> EMPTY]
ContentPart(t) == [type |-> "text", text |-> EMPTY, content |-> t]
ImagePart == [type |-> "image", text |-> EMPTY, content |-> EMPTY]
Parts == {TextPart(HI), TextPart(<<"a", HASH, "b">>), TextPart(EMPTY), ContentPart(HI), ImagePart}
PartLists == SeqsUpTo(Parts, MaxParts)

\* The value of a message property: absent, a string, or an array of parts
NoValue == [kind |-> "undefined", str |-> EMPTY, parts |-> <<>>]
StrValue(t) == [kind |-> "string", str |-> t, parts |-> <<>>]
ArrValue(ps) == [kind |-> "array", str |-> EMPTY, parts |-> ps]

\* !value: undefined and "" are falsy, every array is truthy
TruthyValue(value) ==
  CASE value.kind = "undefined" -> FALSE
    [] value.kind = "string" -> value.str # EMPTY
    [] OTHER -> TRUE

\* CustomMessage: a role outside the wire roles and a list of parts
CustomMessage(r, ps) == [role |-> r, content |-> ps]
CustomRoles == {SYSTEM, HI}
CustomParts == {TextPart(HI), TextPart(<<"a", HASH, "b">>), TextPart(EMPTY), ImagePart}
CustomMessages ==
  {CustomMessage(r, ps) : r \in CustomRoles, ps \in SeqsUpTo(CustomParts, MaxParts)}

\* A message as it travels: role and the properties content and text
WireMessage(r, c, t) == [role |-> r, content |-> c, text |-> t]
WireTexts == {NoValue, StrValue(MASKED_SYSTEM \o HI)}
WireContents ==
  {NoValue}
    \cup {StrValue(t) : t \in Texts}
    \cup {ArrValue(<<TextPart(MASKED_SYSTEM)>> \o ps) : ps \in PartLists}
    \cup {ArrValue(ps) : ps \in PartLists}
WireMessages ==
  {WireMessage(r, c, t) : r \in {USER, ASSISTANT}, c \in WireContents, t \in WireTexts}

\* index of the first sep in s, 0 when there is none
RECURSIVE IndexOf(_, _, _)
IndexOf(s, sep, from) ==
  IF from > Len(s) THEN 0
  ELSE IF s[from] = sep THEN from
  ELSE IndexOf(s, sep, from + 1)

\* String.prototype.split(sep) for a one-character separator
RECURSIVE split(_, _)
split(s, sep) ==
  LET k == IndexOf(s, sep, 1)
  IN IF k = 0 THEN <<s>>
     ELSE <<SubSeq(s, 1, k - 1)>> \o split(SubSeq(s, k + 1, Len(s)), sep)

\* Array.prototype.join(sep), sep a text
RECURSIVE join(_, _)
join(segments, sep) ==
  IF segments = <<>> THEN EMPTY
  ELSE IF Len(segments) = 1 THEN segments[1]
  ELSE segments[1] \o sep \o join(Tail(segments), sep)

\* encodeCustomMessage(msg): a UserMessage whose parts are the marker part
\* and then the parts of msg
encodeCustomMessage(msg) ==
  WireMessage(USER,
              ArrValue(<<TextPart(MARK \o msg.role \o <<HASH>>)>> \o msg.content),
              NoValue)

NotMasked == [defined |-> FALSE, role |-> EMPTY, content |-> EMPTY]
Decoded(r, c) == [defined |-> TRUE, role |-> r, content |-> c]

\* decode that takes the role from the second segment
decodeCustomMessage_RoleFromId(value) ==
  LET segments == split(value, HASH)
  IN IF Len(segments) < 2 \/ segments[2] # CUSTOM_ROLE THEN NotMasked
     ELSE Decoded(segments[2], join(SubSeq(segments, 4, Len(segments)), <<HASH>>))

\* decodeCustomMessage(value): const [_, id, role, ...content] = value.split("#")
decodeCustomMessage(value) ==
  LET segments == split(value, HASH)
  IN IF Len(segments) < 2 \/ segments[2] # CUSTOM_ROLE THEN NotMasked
     ELSE Decoded(IF Len(segments) >= 3 THEN segments[3] ELSE RoleUndefined,
                  join(SubSeq(segments, 4, Len(segments)), <<HASH>>))

\* (val) => val.type === "text" ? val.text || val.content : null, null as EMPTY
PartText(val) ==
  IF val.type = "text"
    THEN (IF val.text # EMPTY THEN val.text ELSE val.content)
    ELSE EMPTY

isTruthy(t) == t # EMPTY

\* value.map(...).filter(isTruthy).join("")
FlattenParts(ps) ==
  join(SelectSeq([k \in 1..Len(ps) |-> PartText(ps[k])], isTruthy), EMPTY)

\* the string decode is applied to: the parts flattened, or the string itself
Flatten(value) == IF value.kind = "array" THEN FlattenParts(value.parts) ELSE value.str

Keys == <<"content", "text">>

\* the for loop of unmaskCustomMessage from key number k on
RECURSIVE unmaskFrom(_, _)
unmaskFrom(msg, k) ==
  IF k > Len(Keys) THEN msg
  ELSE LET value == msg[Keys[k]]
       IN IF ~TruthyValue(value) THEN unmaskFrom(msg, k + 1)
          ELSE LET decoded == decodeCustomMessage(Flatten(value))
               IN IF decoded.defined
                    THEN [msg EXCEPT !.role = decoded.role,
                                     ![Keys[k]] = StrValue(decoded.content)]
                    ELSE unmaskFrom(msg, k + 1)

\* unmaskCustomMessage(msg): msg as it is after the call
unmaskCustomMessage(msg) == IF msg.role # USER THEN msg ELSE unmaskFrom(msg, 1)

(* ====================================================================== *)
(* QdrantDatabaseTool (tools/database/qdrant.ts)                           *)
(* ====================================================================== *)
MaxVectors == 2     \* length of the arrays vectors, ids and payload

DEFAULT_LIMIT == 10

QdrantAction == {"ListCollections", "GetCollectionInfo", "Search", "Insert", "Delete"}

\* An optional property: absent, or present with a value
Absent(dflt) == [given |-> FALSE, value |-> dflt]
Given(v) == [given |-> TRUE, value |-> v]

\* collectionName: absent, empty or a name; !collectionName for the first two
CollectionNames == {Undefined, "", "test"}
TruthyName(n) == n # Undefined /\ n # ""

VectorValues == {<<1>>, <<2, 3>>}
OptVector == {Absent(<<>>), Given(<<>>)} \cup {Given(v) : v \in VectorValues}
OptVectors == {Absent(<<>>)} \cup {Given(vs) : vs \in SeqsUpTo(VectorValues, MaxVectors)}
OptTopK == {Absent(0), Given(0), Given(1), Given(3)}
FilterObject == {<<"city", "Berlin">>}
OptFilter == {Absent({}), Given(FilterObject)}
PayloadObjects == {{}, {<<"city", "Berlin">>}}
OptPayload == {Absent(<<>>)} \cup {Given(ps) : ps \in SeqsUpTo(PayloadObjects, MaxVectors)}

\* A point id: a number the caller gave, or the value uuidv4() returned for
\* the n-th vector
NumId(n) == [kind |-> "number", num |-> n]
Uuid(n) == [kind |-> "uuid", num |-> n]
IdValues == {NumId(0), NumId(32)}
OptIds == {Absent(<<>>)} \cup {Given(is) : is \in SeqsUpTo(IdValues, MaxVectors)}

ToolInput(a, c, v, vs, k, f, pl, is) ==
  [action |-> a, collectionName |-> c, vector |-> v, vectors |-> vs,
   topK |-> k, filter |-> f, payload |-> pl, ids |-> is]

\* The inputs the schema accepts: those of a search and those of an insert or
\* delete, each under every action
ToolInputs ==
  {ToolInput(a, c, v, Absent(<<>>), k, f, Absent(<<>>), Absent(<<>>)) :
     a \in QdrantAction, c \in CollectionNames, v \in OptVector, k \in OptTopK, f \in OptFilter}
  \cup
  {ToolInput(a, c, Absent(<<>>), vs, Absent(0), Absent({}), pl, is) :
     a \in QdrantAction, c \in CollectionNames, vs \in OptVectors, pl \in OptPayload, is \in OptIds}

NoInput ==
  ToolInput("ListCollections", Undefined, Absent(<<>>), Absent(<<>>), Absent(0),
            Absent({}), Absent(<<>>), Absent(<<>>))

VALID == "valid"
COLLECTION_REQUIRED ==
  "Collection name is required for GetCollectionInfo, Search, Insert, and Delete actions."
VECTOR_REQUIRED == "Vector is required for Search action."
VECTORS_REQUIRED == "Vectors are required for Insert action."

\* validateInput that looks at the vector and vectors before the name
validateInput_VectorFirst(inp) ==
  IF inp.action = "Search" /\ (~TruthyName(inp.collectionName) \/ ~inp.vector.given)
    THEN VECTOR_REQUIRED
  ELSE IF inp.action = "Insert" /\ (~TruthyName(inp.collectionName) \/ ~inp.vectors.given)
    THEN VECTORS_REQUIRED
  ELSE IF inp.action # "ListCollections" /\ ~TruthyName(inp.collectionName)
    THEN COLLECTION_REQUIRED
  ELSE VALID

\* validateInput(schema, input) on an input the schema accepts: the message of
\* the ToolInputValidationError thrown, or VALID.  An array is truthy.
validateInput(inp) ==
  IF inp.action # "ListCollections" /\ ~TruthyName(inp.collectionName)
    THEN COLLECTION_REQUIRED
  ELSE IF inp.action = "Search" /\ (~TruthyName(inp.collectionName) \/ ~inp.vector.given)
    THEN VECTOR_REQUIRED
  ELSE IF inp.action = "Insert" /\ (~TruthyName(inp.collectionName) \/ ~inp.vectors.given)
    THEN VECTORS_REQUIRED
  ELSE VALID

\* the ToolError _run throws before it calls the client, or VALID
RunGuard(inp) ==
  CASE inp.action = "GetCollectionInfo" /\ ~TruthyName(inp.collectionName) ->
         "A collection name is required for Qdrant GetCollectionInfo action"
    [] inp.action = "Search" /\ (~TruthyName(inp.collectionName) \/ ~inp.vector.given) ->
         "A collection name and vector are required for Qdrant Search action"
    [] inp.action = "Insert" /\ (~TruthyName(inp.collectionName) \/ ~inp.vectors.given) ->
         "A collection name and vectors are required for Qdrant Insert action"
    [] inp.action = "Delete" /\ (~TruthyName(inp.collectionName) \/ ~inp.ids.given) ->
         "Collection name and ids are required for Qdrant Delete action"
    [] OTHER -> VALID

\* input?.ids?.[index]: the id, or nothing
IdAt(inp, index) ==
  IF inp.ids.given /\ index <= Len(inp.ids.value)
    THEN Given(inp.ids.value[index]) ELSE Absent(NumId(0))

\* input?.payload?.[index] || {}: a payload object is truthy
PayloadAt(inp, index) ==
  IF inp.payload.given /\ index <= Len(inp.payload.value)
    THEN inp.payload.value[index] ELSE {}

\* the points of insert, with ids that take a uuid for every falsy id
Points_FalsyId(inp) ==
  [index \in 1..Len(inp.vectors.value) |->
     [id |-> IF IdAt(inp, index).given /\ IdAt(inp, index).value.num # 0
               THEN IdAt(inp, index).value ELSE Uuid(index),
      vector |-> inp.vectors.value[index],
      payload |-> PayloadAt(inp, index)]]

\* input.vectors.map((vector, index) => ({id: ids?.[index] ?? uuidv4(), vector,
\* payload: payload?.[index] || {}}))
Points(inp) ==
  [index \in 1..Len(inp.vectors.value) |->
     [id |-> IF IdAt(inp, index).given
               THEN IdAt(inp, index).value ELSE Uuid(index),
      vector |-> inp.vectors.value[index],
      payload |-> PayloadAt(inp, index)]]

\* input.topK || 10
Limit(inp) ==
  IF inp.topK.given /\ inp.topK.value # 0 THEN inp.topK.value ELSE DEFAULT_LIMIT

\* A call on the database client: the method, the collection and the
\* properties of its second argument
ClientCall(method, collection, points, query, limit, withPayload, filter) ==
  [method |-> method, collection |-> collection, points |-> points, query |-> query,
   limit |-> limit, with_payload |-> withPayload, filter |-> filter]

\* the call _run makes for input
CallOf(inp) ==
  CASE inp.action = "ListCollections" ->
         ClientCall("getCollections", Undefined, <<>>, Absent(<<>>), 0, FALSE, Absent({}))
    [] inp.action = "GetCollectionInfo" ->
         ClientCall("getCollection", inp.collectionName, <<>>, Absent(<<>>), 0, FALSE, Absent({}))
    [] inp.action = "Search" ->
         ClientCall("query", inp.collectionName, <<>>, inp.vector, Limit(inp), TRUE, inp.filter)
    [] inp.action = "Insert" ->
         ClientCall("upsert", inp.collectionName, Points(inp), Absent(<<>>), 0, FALSE, Absent({}))
    [] inp.action = "Delete" ->
         ClientCall("delete", inp.collectionName, inp.ids.value, Absent(<<>>), 0, FALSE, Absent({}))

\* What the client answers: a status, and for getCollections the collections
Response(st, names) == [status |-> st, collections |-> names]
Responses == {Response("ok", <<>>), Response("acknowledged", <<"test", "docs">>)}
ClientErrors == {"Service Unavailable"}

\* response.collections.map((collection) => collection.name)
NamesOf(response) == response.collections

NoResult == [status |-> "pending", error |-> "", message |-> "", value |-> Response("", <<>>), names |-> <<>>]
ToolRejected(kind, msg) == [status |-> "rejected", error |-> kind, message |-> msg, value |-> Response("", <<>>), names |-> <<>>]
JSONToolOutput(response) == [status |-> "resolved", error |-> "", message |-> "", value |-> response, names |-> <<>>]
JSONToolOutputNames(ns) == [status |-> "resolved", error |-> "", message |-> "", value |-> Response("", <<>>), names |-> ns]

(* ====================================================================== *)
(* Two runs that overlap on one memory                                     *)
(* ====================================================================== *)
RunIds == {1, 2}

\* what a run holds from line 107 on: its position, its input, the
\* run.completed event, and how many input messages addMany has added
Holding(at, inp, ed, n) == [pc |-> at, input |-> inp, eventData |-> ed, i |-> n]
NotStarted == Holding("idle", [isArray |-> TRUE, items |-> <<>>], JNull, 0)

OverlapInputs ==
  {[isArray |-> FALSE, items |-> <<Str("hi")>>],
   [isArray |-> TRUE, items |-> <<Msg("system", "be brief"), Str("hi")>>]}
OverlapEvents ==
  {JEvent("run.completed", Undefined, OutHello), JEvent("run.completed", Undefined, OutABC)}

(* ====================================================================== *)
(* vercelFetcher (examples/internals/fetcher.ts)                           *)
(* ====================================================================== *)
MaxMessages == 2    \* entries of the messages array of a request body

\* A text: JSON text that denotes a value, laid out with or without white
\* space, or a text JSON.parse rejects
JSONText(value, spaced) == [wellFormed |-> TRUE, denotes |-> value, spaced |-> spaced]

\* An entry of a messages array: a plain object with role, content and text,
\* or a value that is no plain object
PlainMessage(msg) == [plain |-> TRUE, msg |-> msg]
NotPlain == [plain |-> FALSE, msg |-> WireMessage(EMPTY, NoValue, NoValue)]
ChatEntries ==
  {PlainMessage(WireMessage(USER, StrValue(MASKED_SYSTEM \o HI), NoValue)),
   PlainMessage(WireMessage(USER, StrValue(HI), NoValue)),
   PlainMessage(WireMessage(USER, StrValue(HI \o MARK \o SYSTEM), NoValue)),
   PlainMessage(WireMessage(ASSISTANT, StrValue(MASKED_SYSTEM \o HI), NoValue)),
   NotPlain}

\* The value of a body: a plain object with a messages array, a plain object
\* without one, or an array
ObjectWithMessages(ms) == [kind |-> "object", hasMessages |-> TRUE, messages |-> ms]
ObjectWithout == [kind |-> "object", hasMessages |-> FALSE, messages |-> <<>>]
ArrayBody == [kind |-> "array", hasMessages |-> FALSE, messages |-> <<>>]
BodyValues ==
  {ObjectWithout, ArrayBody}
    \cup {ObjectWithMessages(ms) : ms \in SeqsUpTo(ChatEntries, MaxMessages)}

NotJSONText == [wellFormed |-> FALSE, denotes |-> ObjectWithout, spaced |-> FALSE]
BodyTexts == {NotJSONText} \cup {JSONText(v, sp) : v \in BodyValues, sp \in BOOLEAN}

\* options.body: absent, a string, or something that is no string
NoBody == [kind |-> "absent", text |-> NotJSONText]
StringBody(t) == [kind |-> "string", text |-> t]
OtherBody == [kind |-> "other", text |-> NotJSONText]
Bodies == {NoBody, OtherBody} \cup {StringBody(t) : t \in BodyTexts}

\* options.headers: at most one header that names the content type
NoHeaders == [key |-> "", value |-> ""]
Header(k, v) == [key |-> k, value |-> v]
HeaderSets ==
  {NoHeaders}
    \cup {Header(k, v) : k \in {"content-type", "Content-Type", "CONTENT-TYPE"},
                         v \in {"application/json", "text/plain"}}

NoOptions == [given |-> FALSE, headers |-> NoHeaders, body |-> NoBody]
Options(h, b) == [given |-> TRUE, headers |-> h, body |-> b]
Request(url, opts) == [url |-> url, options |-> opts]
Requests ==
  {Request("/chat", NoOptions)}
    \cup {Request("/chat", Options(h, b)) : h \in HeaderSets, b \in Bodies}

\* getProp(options.headers, [name])
getProp(headers, name) == IF headers.key = name THEN headers.value ELSE Undefined

\* the condition of lines 110-113
IsJSONString(opts) ==
  /\ opts.given
  /\ opts.body.kind = "string"
  /\ (getProp(opts.headers, "content-type") = "application/json"
        \/ getProp(opts.headers, "Content-Type") = "application/json")

\* lines 116-123: every plain object of body.messages is unmasked in place
Unmasked(body) ==
  IF body.kind = "object" /\ body.hasMessages
    THEN [body EXCEPT !.messages =
            [k \in 1..Len(body.messages) |->
               IF body.messages[k].plain
                 THEN PlainMessage(unmaskCustomMessage(body.messages[k].msg))
                 ELSE body.messages[k]]]
    ELSE body

\* How the call settled: the response of the underlying fetch, or an error
NotSettled == [status |-> "pending", value |-> ""]
FetchSettled(st, v) == [status |-> st, value |-> v]
JSON_SYNTAX_ERROR == "SyntaxError"

\* State of the other operations: each is idle while a run is modelled
VARIABLES
  finished,    \* the runs that have settled on this memory, oldest first
  apc,         \* position of checkAgentExists
  fetched,     \* how client.fetch("agents") settled
  exists,      \* how checkAgentExists settled
  mpc,         \* position of the masking helpers
  custom,      \* the custom-role message handed to encodeCustomMessage
  before,      \* the message handed to unmaskCustomMessage, as it was
  wire,        \* that message object, rewritten in place by unmask
  decoded,     \* what decodeCustomMessage returned
  tpc,         \* position of the Qdrant tool's run
  tinput,      \* the input of the run
  calls,       \* the calls made on the database client, oldest first
  response,    \* what the client answered
  tresult,     \* how the run settled
  overlap,     \* the runs of two agents on the one memory: what each holds
  fpc,         \* position of the fetch function vercelFetcher returned
  request,     \* the url and options it was called with, as they were
  options,     \* the options object, whose body the function may replace
  forwarded,   \* the calls made on the underlying fetch, oldest first
  fresult      \* how the call settled

lookupVars == <<apc, fetched, exists>>
maskVars == <<mpc, custom, before, wire, decoded>>
toolVars == <<tpc, tinput, calls, response, tresult>>
fetchVars == <<fpc, request, options, forwarded, fresult>>
lateVars == <<overlap, fetchVars>>
beyondRun == <<finished, lookupVars, maskVars, toolVars, lateVars>>
runVars == <<pc, input, requests, stream, read, eventData, notes, cancelled, memory, i, outcome>>
vars == <<runVars, beyondRun>>

\* client.fetch("agents"): not called yet, resolved with a payload, or rejected
NotFetched == [state |-> "none", hasAgents |-> FALSE, agents |-> <<>>, message |-> ""]
FetchResolved(as) == [state |-> "resolved", hasAgents |-> TRUE, agents |-> as, message |-> ""]
FetchRejected(m) == [state |-> "rejected", hasAgents |-> FALSE, agents |-> <<>>, message |-> m]
FetchResolvedNoAgents == [state |-> "resolved", hasAgents |-> FALSE, agents |-> <<>>, message |-> ""]

\* checkAgentExists: not settled, returned a boolean, or threw an AgentError
CHECK_PREFIX == "Error while checking agent existence: "

NotChecked == [status |-> "pending", value |-> FALSE, message |-> "", isFatal |-> FALSE]
CheckReturned(b) == [status |-> "returned", value |-> b, message |-> "", isFatal |-> FALSE]
CheckThrew(m) == [status |-> "threw", value |-> FALSE, message |-> CHECK_PREFIX \o m, isFatal |-> TRUE]

Pending == [status |-> "pending", message |-> "", result |-> UserMessage(""), event |-> JNull]
Rejected(m) == [status |-> "rejected", message |-> m, result |-> UserMessage(""), event |-> JNull]
Resolved(r, e) == [status |-> "resolved", message |-> "", result |-> r, event |-> e]

UpdateNote(k, v) == [name |-> "update", key |-> k, value |-> v, message |-> ""]
ErrorNote(m) == [name |-> "error", key |-> Undefined, value |-> JNull, message |-> m]

(* ---------------------------------------------------------------------- *)
(* Helpers of _run                                                         *)
(* ---------------------------------------------------------------------- *)
\* Mutant: every wire message is given the user role
convertToACPMessage_AllUser(x) ==
  [parts |-> << [content |-> x.content, role |-> "user"] >>]

\* convertToACPMessage: the wire message of one input
convertToACPMessage(x) ==
  IF x.isString THEN [parts |-> << [content |-> x.content, role |-> "user"] >>]
                ELSE [parts |-> << [content |-> x.content, role |-> x.role] >>]

\* Mutant: every input is wrapped as a user message, a Message loses its role
convertToMessage_AllUser(x) == UserMessage(x.content)

\* convertToMessage: a string is wrapped as a user message, a Message is kept
convertToMessage(x) ==
  IF x.isString THEN UserMessage(x.content)
                ELSE [role |-> x.role, text |-> x.content, meta |-> JNull]

\* Array.isArray(input.input) ? input.input.map(this.convertToACPMessage)
\*                             : [this.convertToACPMessage(input.input)]
inputs(inp) == [k \in 1..Len(inp.items) |-> convertToACPMessage(inp.items[k])]

\* The same with convertToMessage
inputMessages(inp) == [k \in 1..Len(inp.items) |-> convertToMessage(inp.items[k])]

\* The body of the request to the runs endpoint
RunRequest(inp) ==
  [agent_name |-> AgentName, input |-> inputs(inp), mode |-> "stream"]

\* JSON.stringify(value): the JSON text that denotes value, written without
\* any white space between its tokens
JSONstringify(value) == [wellFormed |-> TRUE, denotes |-> value, spaced |-> FALSE]

\* this.client.stream("runs", { body: JSON.stringify({...}), signal })
RUNS == "runs"
StreamRequest(inp) == [path |-> RUNS, body |-> JSONstringify(RunRequest(inp))]

\* { ...eventData, type: undefined }: spreading a number gives no properties
WithoutType(v) ==
  IF v.kind = "object" THEN [v EXCEPT !.type = Undefined]
                       ELSE JEvent(Undefined, Undefined, <<>>)

\* Mutant: eventData is reset before the parse, a malformed frame clears it
ParsedInto_Reset(ed, event) ==
  LET p == JSONparse(event.data) IN IF p.threw THEN JNull ELSE p.value

\* The try block of the loop body: eventData after JSON.parse(event.data)
ParsedInto(ed, event) ==
  LET p == JSONparse(event.data) IN IF p.threw THEN ed ELSE p.value

\* The notification the loop body emits for one frame: "update" when the try
\* block runs through; "error" when JSON.parse throws, or when reading
\* eventData.type throws because eventData is null.
FrameNote(event) ==
  LET p == JSONparse(event.data) IN
  IF p.threw \/ p.value.kind = "null"
  THEN ErrorNote(PARSE_ERROR)
  ELSE UpdateNote(p.value.type, WithoutType(p.value))

\* Mutant: the inner reduce prepends, part.content + acc2
RECURSIVE ReduceParts_Prepend(_, _)
ReduceParts_Prepend(acc2, parts) ==
  IF parts = <<>> THEN acc2 ELSE ReduceParts_Prepend(Head(parts) \o acc2, Tail(parts))

\* output.parts.reduce((acc2, part) => acc2 + part.content, "")
RECURSIVE ReduceParts(_, _)
ReduceParts(acc2, parts) ==
  IF parts = <<>> THEN acc2 ELSE ReduceParts(acc2 \o Head(parts), Tail(parts))

\* eventData.run.output.reduce((acc, output) => acc + <parts>, "")
RECURSIVE ReduceOutput(_, _)
ReduceOutput(acc, output) ==
  IF output = <<>> THEN acc
  ELSE ReduceOutput(acc \o ReduceParts("", Head(output)), Tail(output))

ResultText(ed) == ReduceOutput("", ed.output)

\* Mutant: the embedded message is ignored
FailureMessage_Default(ed) == DEFAULT_FAILURE

\* eventData.run?.error?.message || "Something went wrong ..."
FailureMessage(ed) ==
  IF ed.message = Undefined \/ ed.message = "" THEN DEFAULT_FAILURE ELSE ed.message

assistantMessage(ed) == AssistantMessage(ResultText(ed), ed)

\* memory.add(message): append at the end
MemoryAdd(mem, msg) == Append(mem, msg)

(* ---------------------------------------------------------------------- *)
(* The state machine                                                       *)
(* ---------------------------------------------------------------------- *)
Init ==
  /\ pc = "idle"
  /\ input = [isArray |-> TRUE, items |-> <<>>]
  /\ requests = <<>>
  /\ stream = <<>>
  /\ read = 0
  /\ eventData = JNull
  /\ notes = <<>>
  /\ cancelled = FALSE
  /\ memory = InitialMemory
  /\ i = 0
  /\ outcome = Pending
  /\ finished = <<>>
  /\ apc = "idle"
  /\ fetched = NotFetched
  /\ exists = NotChecked
  /\ mpc = "idle"
  /\ custom = CustomMessage(EMPTY, <<>>)
  /\ before = WireMessage(EMPTY, NoValue, NoValue)
  /\ wire = WireMessage(EMPTY, NoValue, NoValue)
  /\ decoded = NotMasked
  /\ tpc = "idle"
  /\ tinput = NoInput
  /\ calls = <<>>
  /\ response = Response("", <<>>)
  /\ tresult = NoResult
  /\ overlap = [r \in RunIds |-> NotStarted]
  /\ fpc = "idle"
  /\ request = Request("", NoOptions)
  /\ options = NoOptions
  /\ forwarded = <<>>
  /\ fresult = NotSettled

\* _run up to the loop, for the input inp and a server that will send sent:
\* convert the inputs, open the stream, eventData = null
RunWith(inp, sent) ==
  /\ input' = inp
  /\ stream' = sent
  /\ requests' = Append(requests, StreamRequest(inp))
  /\ eventData' = JNull
  /\ pc' = "stream"
  /\ UNCHANGED <<read, notes, cancelled, memory, i, outcome>>
  /\ UNCHANGED beyondRun

\* run(input) is called
Run ==
  /\ pc = "idle"
  /\ \E inp \in Inputs, sent \in SeqsUpTo(Frames, MaxFrames) : RunWith(inp, sent)

\* Mutant: run.failed is classified inside the loop, the body throws at once
LoopBody_Eager ==
  /\ pc = "stream"
  /\ read < Len(stream)
  /\ read' = read + 1
  /\ eventData' = ParsedInto(eventData, stream[read + 1])
  /\ notes' = Append(notes, FrameNote(stream[read + 1]))
  /\ IF Truthy(eventData') /\ eventData'.type = "run.failed"
     THEN outcome' = Rejected(FailureMessage(eventData')) /\ pc' = "done"
     ELSE UNCHANGED <<pc, outcome>>
  /\ UNCHANGED <<input, requests, stream, cancelled, memory, i>>
  /\ UNCHANGED beyondRun

\* Mutant: the loop breaks once a terminal event has been parsed
LoopBody_Break ==
  /\ pc = "stream"
  /\ read < Len(stream)
  /\ read' = read + 1
  /\ eventData' = ParsedInto(eventData, stream[read + 1])
  /\ notes' = Append(notes, FrameNote(stream[read + 1]))
  /\ pc' = IF Truthy(eventData') /\ eventData'.type \in {"run.failed", "run.completed"}
           THEN "classify" ELSE pc
  /\ UNCHANGED <<input, requests, stream, cancelled, memory, i, outcome>>
  /\ UNCHANGED beyondRun

\* One iteration of for await: the generator yields the next frame, the body runs
LoopBody ==
  /\ pc = "stream"
  /\ read < Len(stream)
  /\ read' = read + 1
  /\ eventData' = ParsedInto(eventData, stream[read + 1])
  /\ notes' = Append(notes, FrameNote(stream[read + 1]))
  /\ UNCHANGED <<pc, input, requests, stream, cancelled, memory, i, outcome>>
  /\ UNCHANGED beyondRun

\* The transport closes: the generator is done
StreamEnd ==
  /\ pc = "stream"
  /\ read = Len(stream)
  /\ pc' = "classify"
  /\ UNCHANGED <<input, requests, stream, read, eventData, notes, cancelled, memory, i, outcome>>
  /\ UNCHANGED beyondRun

\* The cancellation signal fires while the stream is open (the signal is handed
\* to the stream only): the connection is aborted and the sequence ends without
\* an error, the frames not yet read are never yielded
Cancel ==
  /\ pc = "stream"
  /\ cancelled' = TRUE
  /\ pc' = "classify"
  /\ UNCHANGED <<input, requests, stream, read, eventData, notes, memory, i, outcome>>
  /\ UNCHANGED beyondRun

\* An upstream connection error ends the sequence abnormally: the generator
\* throws and _run rejects with that error
TRANSPORT_ERROR == "transport error"
StreamError ==
  /\ pc = "stream"
  /\ outcome' = Rejected(TRANSPORT_ERROR)
  /\ pc' = "done"
  /\ UNCHANGED <<input, requests, stream, read, eventData, notes, cancelled, memory, i>>
  /\ UNCHANGED beyondRun

\* Mutant: the null check is missing, reading eventData.type throws a TypeError
NoEvent_TypeError ==
  /\ pc = "classify"
  /\ ~Truthy(eventData)
  /\ outcome' = Rejected("Cannot read properties of null (reading 'type')")
  /\ pc' = "done"
  /\ UNCHANGED <<input, requests, stream, read, eventData, notes, cancelled, memory, i>>
  /\ UNCHANGED beyondRun

\* if (!eventData) throw new AgentError("No event received from agent.")
NoEvent ==
  /\ pc = "classify"
  /\ ~Truthy(eventData)
  /\ outcome' = Rejected(NO_EVENT)
  /\ pc' = "done"
  /\ UNCHANGED <<input, requests, stream, read, eventData, notes, cancelled, memory, i>>
  /\ UNCHANGED beyondRun

\* Mutant: run.failed throws without the "error" notification
Failed_NoEmit ==
  /\ pc = "classify"
  /\ Truthy(eventData)
  /\ eventData.type = "run.failed"
  /\ pc' = "throw"
  /\ UNCHANGED <<input, requests, stream, read, eventData, notes, cancelled, memory, i, outcome>>
  /\ UNCHANGED beyondRun

\* run.failed: emit "error" with the message ...
Failed ==
  /\ pc = "classify"
  /\ Truthy(eventData)
  /\ eventData.type = "run.failed"
  /\ notes' = Append(notes, ErrorNote(FailureMessage(eventData)))
  /\ pc' = "throw"
  /\ UNCHANGED <<input, requests, stream, read, eventData, cancelled, memory, i, outcome>>
  /\ UNCHANGED beyondRun

\* ... then throw new AgentError(message)
Throw ==
  /\ pc = "throw"
  /\ outcome' = Rejected(FailureMessage(eventData))
  /\ pc' = "done"
  /\ UNCHANGED <<input, requests, stream, read, eventData, notes, cancelled, memory, i>>
  /\ UNCHANGED beyondRun

\* run.completed: build the assistant message and the input messages
Completed ==
  /\ pc = "classify"
  /\ Truthy(eventData)
  /\ eventData.type = "run.completed"
  /\ i' = 0
  /\ pc' = "addMany"
  /\ UNCHANGED <<input, requests, stream, read, eventData, notes, cancelled, memory, outcome>>
  /\ UNCHANGED beyondRun

\* memory.addMany(inputMessages): one add per message, in order
AddMany ==
  /\ pc = "addMany"
  /\ i < Len(inputMessages(input))
  /\ memory' = MemoryAdd(memory, inputMessages(input)[i + 1])
  /\ i' = i + 1
  /\ UNCHANGED <<pc, input, requests, stream, read, eventData, notes, cancelled, outcome>>
  /\ UNCHANGED beyondRun

\* memory.add(assistantMessage)
Add ==
  /\ pc = "addMany"
  /\ i = Len(inputMessages(input))
  /\ memory' = MemoryAdd(memory, assistantMessage(eventData))
  /\ pc' = "return"
  /\ UNCHANGED <<input, requests, stream, read, eventData, notes, cancelled, i, outcome>>
  /\ UNCHANGED beyondRun

\* return { result: assistantMessage, event: eventData }
Return ==
  /\ pc = "return"
  /\ outcome' = Resolved(assistantMessage(eventData), eventData)
  /\ pc' = "done"
  /\ UNCHANGED <<input, requests, stream, read, eventData, notes, cancelled, memory, i>>
  /\ UNCHANGED beyondRun

\* Mutant: an unknown type is treated like no event
Other_Rejects ==
  /\ pc = "classify"
  /\ Truthy(eventData)
  /\ eventData.type \notin {"run.failed", "run.completed"}
  /\ outcome' = Rejected(NO_EVENT)
  /\ pc' = "done"
  /\ UNCHANGED <<input, requests, stream, read, eventData, notes, cancelled, memory, i>>
  /\ UNCHANGED beyondRun

\* Mutant: the placeholder result is remembered
Other_Remembers ==
  /\ pc = "classify"
  /\ Truthy(eventData)
  /\ eventData.type \notin {"run.failed", "run.completed"}
  /\ outcome' = Resolved(AssistantMessage(NO_RESPONSE, JNull), eventData)
  /\ memory' = MemoryAdd(memory, AssistantMessage(NO_RESPONSE, JNull))
  /\ pc' = "done"
  /\ UNCHANGED <<input, requests, stream, read, eventData, notes, cancelled, i>>
  /\ UNCHANGED beyondRun

\* Any other type: the placeholder result
Other ==
  /\ pc = "classify"
  /\ Truthy(eventData)
  /\ eventData.type \notin {"run.failed", "run.completed"}
  /\ outcome' = Resolved(AssistantMessage(NO_RESPONSE, JNull), eventData)
  /\ pc' = "done"
  /\ UNCHANGED <<input, requests, stream, read, eventData, notes, cancelled, memory, i>>
  /\ UNCHANGED beyondRun

Next ==
  \/ Run
  \/ LoopBody
  \/ StreamEnd
  \/ Cancel
  \/ StreamError
  \/ NoEvent
  \/ Failed
  \/ Throw
  \/ Completed
  \/ AddMany
  \/ Add
  \/ Return
  \/ Other

Spec == Init /\ [][Next]_vars

(* ---------------------------------------------------------------------- *)
(* What the properties speak about                                         *)
(* ---------------------------------------------------------------------- *)
\* The frames read so far, and those among them whose data is JSON text
Consumed == SubSeq(stream, 1, read)
IsJSON(event) == event.data.wellFormed
JSONFrames(w) == SelectSeq(w, IsJSON)

\* The value of the last frame of w that parsed, null when none did
LastParsed(w) ==
  LET js == JSONFrames(w) IN IF js = <<>> THEN JNull ELSE js[Len(js)].data.denotes

\* The sequence has ended (closed or aborted) and _run went on to classify
Drained == pc \in {"classify", "throw", "addMany", "return"}
             \/ (pc = "done" /\ outcome.message # TRANSPORT_ERROR)
Settled == pc = "done" /\ outcome.message # TRANSPORT_ERROR

\* The number of input messages of the run: one for a single value
NInputs == Len(input.items)
Base == Len(InitialMemory)

\* The domain message an input stands for, from its shape alone
AsDomainMessage(x) ==
  [role |-> IF x.isString THEN "user" ELSE x.role, text |-> x.content, meta |-> JNull]

(* ---------------------------------------------------------------------- *)
(* C1.  A run that ends classified as run.completed with n inputs has      *)
(* appended exactly n + 1 messages to memory: the n inputs in input order  *)
(* (a string wrapped as a user message), then the assistant message; the   *)
(* call resolves with that assistant message and the terminal event.       *)
(* ---------------------------------------------------------------------- *)
C1_CompletedAppends ==
  (Settled /\ Truthy(LastParsed(Consumed)) /\ LastParsed(Consumed).type = "run.completed")
  => /\ Len(memory) = Base + NInputs + 1
     /\ SubSeq(memory, 1, Base) = InitialMemory
     /\ \A k \in 1..NInputs : memory[Base + k] = AsDomainMessage(input.items[k])
     /\ memory[Len(memory)].role = "assistant"
     /\ outcome.status = "resolved"
     /\ outcome.result = memory[Len(memory)]
     /\ outcome.event = LastParsed(Consumed)

C1_Witness ==
  /\ Settled
  /\ LastParsed(Consumed).type = "run.completed"
  /\ input.items = <<Msg("system", "be brief"), Str("hi")>>
  /\ Len(memory) = Base + 3

(* ---------------------------------------------------------------------- *)
(* C2.  For a run whose last event is run.completed the result text is the *)
(* concatenation of the content of every part of every output, in output   *)
(* order and then part order; empty when there are no outputs or parts.    *)
(* ---------------------------------------------------------------------- *)
\* All parts of all outputs in one list, outputs in order, parts in order
RECURSIVE AllParts(_)
AllParts(output) ==
  IF output = <<>> THEN <<>>
  ELSE AllParts(SubSeq(output, 1, Len(output) - 1)) \o output[Len(output)]

RECURSIVE Joined(_)
Joined(parts) ==
  IF parts = <<>> THEN ""
  ELSE Joined(SubSeq(parts, 1, Len(parts) - 1)) \o parts[Len(parts)]

\* C2: the result text of a completed run is the join of all parts, in order
C2_ResultText ==
  (Settled /\ Truthy(LastParsed(Consumed)) /\ LastParsed(Consumed).type = "run.completed")
  => LET out == LastParsed(Consumed).output IN
     /\ outcome.result.text = Joined(AllParts(out))
     /\ out = OutABC => outcome.result.text = "abc"
     /\ out = OutHello => outcome.result.text = "Hello"
     /\ out \in {OutNone, OutNoParts} => outcome.result.text = ""

C2_Witness ==
  /\ Settled
  /\ LastParsed(Consumed) = JEvent("run.completed", Undefined, OutABC)
  /\ outcome.status = "resolved"
  /\ outcome.result.text = "abc"

(* ---------------------------------------------------------------------- *)
(* C3.  When the last event of a run is run.failed the call rejects with   *)
(* the event's run.error.message, or the default message when none is      *)
(* embedded, and memory is unchanged at every point: no partial append.    *)
(* ---------------------------------------------------------------------- *)
C3_FailedRejects ==
  (Drained /\ Truthy(LastParsed(Consumed)) /\ LastParsed(Consumed).type = "run.failed")
  => /\ memory = InitialMemory
     /\ outcome.status # "resolved"
     /\ pc = "done" =>
          /\ outcome.status = "rejected"
          /\ outcome.message =
               IF LastParsed(Consumed).message \in {Undefined, ""}
               THEN DEFAULT_FAILURE ELSE LastParsed(Consumed).message

C3_Witness ==
  /\ Settled
  /\ LastParsed(Consumed) = JEvent("run.failed", "boom", <<>>)
  /\ outcome = Rejected("boom")
  /\ memory = InitialMemory

(* ---------------------------------------------------------------------- *)
(* C4.  When the stream ends without any successfully parsed event (no     *)
(* frame at all, or only malformed frames) the call rejects with           *)
(* "No event received from agent." and memory is unchanged.                *)
(* ---------------------------------------------------------------------- *)
C4_NoEventRejects ==
  (Drained /\ JSONFrames(Consumed) = <<>>)
  => /\ memory = InitialMemory
     /\ pc \in {"classify", "done"}
     /\ pc = "done" => outcome = Rejected(NO_EVENT)

C4_Witness ==
  /\ Settled
  /\ ~cancelled
  /\ stream = <<Malformed, Malformed>>
  /\ read = 2
  /\ outcome = Rejected(NO_EVENT)

(* ---------------------------------------------------------------------- *)
(* The run a frame sequence calls for, stated from the protocol: the       *)
(* outcome, the memory and the notifications as functions of the input and *)
(* of the JSON values received.                                            *)
(* ---------------------------------------------------------------------- *)
\* The payload of an event without its type
Payload(v) ==
  IF v.kind = "object" THEN JEvent(Undefined, v.message, v.output)
                       ELSE JEvent(Undefined, Undefined, <<>>)

EmbeddedMessage(v) ==
  IF v.message \in {Undefined, ""} THEN DEFAULT_FAILURE ELSE v.message

Classification(v) ==
  CASE v.kind = "null" \/ (v.kind = "number" /\ v.num = 0) -> "no-event"
    [] v.kind = "object" /\ v.type = "run.failed" -> "failed"
    [] v.kind = "object" /\ v.type = "run.completed" -> "completed"
    [] OTHER -> "other"

ExpectedAssistant(v) ==
  [role |-> "assistant", text |-> Joined(AllParts(v.output)), meta |-> v]

ExpectedOutcome(v) ==
  CASE Classification(v) = "no-event" -> Rejected(NO_EVENT)
    [] Classification(v) = "failed" -> Rejected(EmbeddedMessage(v))
    [] Classification(v) = "completed" -> Resolved(ExpectedAssistant(v), v)
    [] OTHER -> Resolved([role |-> "assistant", text |-> NO_RESPONSE, meta |-> JNull], v)

ExpectedMemory(inp, v) ==
  IF Classification(v) = "completed"
  THEN InitialMemory \o [k \in 1..Len(inp.items) |-> AsDomainMessage(inp.items[k])]
         \o <<ExpectedAssistant(v)>>
  ELSE InitialMemory

\* The notification of one frame whose data is the JSON text of v
ExpectedFrameNote(v) ==
  IF v.kind = "null" THEN ErrorNote(PARSE_ERROR) ELSE UpdateNote(v.type, Payload(v))

\* All notifications of a settled run over the JSON frames js
ExpectedNotes(js) ==
  [k \in 1..Len(js) |-> ExpectedFrameNote(js[k].data.denotes)]
  \o (IF Classification(LastParsed(js)) = "failed"
      THEN <<ErrorNote(EmbeddedMessage(LastParsed(js)))>> ELSE <<>>)

\* notes without the notifications of the frames that did not parse
RECURSIVE IndicesFrom(_, _)
IndicesFrom(k, n) == IF k > n THEN <<>> ELSE <<k>> \o IndicesFrom(k + 1, n)
KeptIndex(k) == k > read \/ IsJSON(stream[k])
NotesOfJSONFrames ==
  LET kept == SelectSeq(IndicesFrom(1, Len(notes)), KeptIndex)
  IN  [j \in 1..Len(kept) |-> notes[kept[j]]]

(* ---------------------------------------------------------------------- *)
(* C5.  A frame whose data is not valid JSON is recovered locally: it      *)
(* fires exactly one "error" notification "Error parsing JSON", leaves the *)
(* last event unchanged and the loop goes on; one malformed frame followed *)
(* by a run.completed frame fires one error and one update and the call    *)
(* succeeds; in general the run is that of the stream with the malformed   *)
(* frames removed.                                                         *)
(* ---------------------------------------------------------------------- *)
C5_Inv ==
  /\ pc # "idle" => eventData = LastParsed(Consumed)
  /\ Len(notes) >= read
  /\ \A k \in 1..read : ~IsJSON(stream[k]) => notes[k] = ErrorNote(PARSE_ERROR)
  /\ Settled =>
       /\ outcome = ExpectedOutcome(LastParsed(JSONFrames(Consumed)))
       /\ memory = ExpectedMemory(input, LastParsed(JSONFrames(Consumed)))
       /\ NotesOfJSONFrames = ExpectedNotes(JSONFrames(Consumed))
  /\ (Settled /\ Consumed = <<Malformed, Frame(JEvent("run.completed", Undefined, OutHello))>>)
       => /\ Len(SelectSeq(notes, LAMBDA n : n.name = "error")) = 1
          /\ Len(SelectSeq(notes, LAMBDA n : n.name = "update")) = 1
          /\ outcome.status = "resolved"
          /\ outcome.result.text = "Hello"

C5_Step ==
  (pc = "stream" /\ read' = read + 1 /\ ~IsJSON(stream[read + 1]))
  => /\ notes' = Append(notes, ErrorNote(PARSE_ERROR))
     /\ eventData' = eventData
     /\ pc' = "stream"
     /\ UNCHANGED <<memory, outcome>>

\* C5: a malformed frame costs one parse-error notification and nothing else
C5_MalformedRecovered == []C5_Inv /\ [][C5_Step]_vars

C5_Witness ==
  /\ Settled
  /\ stream = <<Frame(JEvent("run.completed", Undefined, OutHello)), Malformed>>
  /\ read = 2
  /\ outcome.status = "resolved"
  /\ Len(memory) > Base

(* ---------------------------------------------------------------------- *)
(* C6.  Every frame produces at most one notification: a frame whose data  *)
(* parses as JSON (any JSON value) sets the last event to the parsed value *)
(* and fires exactly one "update" with key = the parsed type and value =   *)
(* the payload without its type, and no "error"; only a frame that fails   *)
(* to parse fires an "error".                                              *)
(* ---------------------------------------------------------------------- *)
C6_OneNotePerFrame ==
  /\ Len(notes) >= read
  /\ pc = "stream" => Len(notes) = read
  /\ \A k \in 1..read :
       IF IsJSON(stream[k])
       THEN notes[k] = UpdateNote(stream[k].data.denotes.type, Payload(stream[k].data.denotes))
       ELSE notes[k].name = "error"
  /\ (pc = "stream" /\ read > 0 /\ IsJSON(stream[read])) => eventData = stream[read].data.denotes

(* ---------------------------------------------------------------------- *)
(* C7.  "update" notifications are delivered in the order their frames     *)
(* arrive, and the terminal classification with all its effects (memory    *)
(* appends, the run.failed error notification, resolving or rejecting)     *)
(* happens only once the sequence has ended, never while frames remain.    *)
(* ---------------------------------------------------------------------- *)
IsUpdate(n) == n.name = "update"
GivesUpdate(event) == IsJSON(event) /\ event.data.denotes.kind # "null"
UpdatesOf(w) ==
  LET us == SelectSeq(w, GivesUpdate)
  IN  [k \in 1..Len(us) |-> UpdateNote(us[k].data.denotes.type, Payload(us[k].data.denotes))]

\* C7: updates follow frame order; effects of the classification only after
\* the sequence has ended
C7_OrderedThenClassified ==
  /\ SelectSeq(notes, IsUpdate) = UpdatesOf(Consumed)
  /\ (memory # InitialMemory \/ Len(notes) > read \/ outcome.status = "resolved"
        \/ (outcome.status = "rejected" /\ outcome.message # TRANSPORT_ERROR))
       => /\ pc # "stream"
          /\ read = Len(stream) \/ cancelled

C7_Witness ==
  /\ Settled
  /\ ~cancelled
  /\ stream = <<Frame(JEvent("run.in-progress", Undefined, <<>>)),
                Frame(JEvent("run.completed", Undefined, OutHello))>>
  /\ Len(SelectSeq(notes, IsUpdate)) = 2
  /\ Len(memory) > Base

(* ---------------------------------------------------------------------- *)
(* C8.  As claimed: run.completed and run.failed are terminal, once such   *)
(* a frame has been read consumption ends and the outcome is that terminal *)
(* state; later frames fire no notification and change nothing.            *)
(* ---------------------------------------------------------------------- *)
IsTerminal(event) ==
  IsJSON(event) /\ event.data.denotes.kind = "object"
    /\ event.data.denotes.type \in {"run.completed", "run.failed"}

\* C8 as claimed: nothing is read after a terminal frame
C8_TerminalEndsConsumption ==
  \A k \in 1..read : IsTerminal(stream[k]) =>
    /\ read = k
    /\ Len(notes) <= k + 1
    /\ Settled => outcome = ExpectedOutcome(stream[k].data.denotes)

(* C8, amended.  A run.completed or run.failed frame does not end          *)
(* consumption: the loop reads on until the stream itself ends, every      *)
(* later frame fires its notification, and the run is classified by the    *)
(* last value parsed, so the outcome is the terminal state only when no    *)
(* parsed frame follows the terminal one.                                  *)
C8_LastParsedDecides ==
  /\ (Drained /\ ~cancelled) => read = Len(stream)
  /\ Len(notes) >= read
  /\ \A k \in 1..read :
       notes[k] = IF IsJSON(stream[k]) THEN ExpectedFrameNote(stream[k].data.denotes)
                                       ELSE ErrorNote(PARSE_ERROR)
  /\ Settled => outcome = ExpectedOutcome(LastParsed(Consumed))
  /\ (Settled /\ read > 0 /\ IsTerminal(stream[read]))
       => outcome = ExpectedOutcome(stream[read].data.denotes)

C8_Witness ==
  /\ Settled
  /\ stream = <<Frame(JEvent("run.completed", Undefined, OutHello)),
                Frame(JEvent("run.in-progress", Undefined, <<>>))>>
  /\ read = 2
  /\ Len(notes) = 2
  /\ outcome.status = "resolved"
  /\ outcome.result.text = NO_RESPONSE
  /\ memory = InitialMemory

(* ---------------------------------------------------------------------- *)
(* C9.  After the cancellation signal fires during a run no further        *)
(* notification is delivered and the call fails with "No event received    *)
(* from agent.", unless a terminal event had already arrived; a run        *)
(* cancelled after only non-terminal events does not resolve.              *)
(* ---------------------------------------------------------------------- *)
TerminalArrived == \E k \in 1..read : IsTerminal(stream[k])

\* C9: a run cancelled before any terminal event rejects with the no-event error
C9_CancelledFails ==
  (cancelled /\ ~TerminalArrived)
  => /\ Len(notes) = read
     /\ outcome.status # "resolved"
     /\ pc = "done" => outcome = Rejected(NO_EVENT)

(* ---------------------------------------------------------------------- *)
(* C10.  When the last successfully parsed event has a type other than     *)
(* run.completed or run.failed the call resolves with the placeholder      *)
(* assistant result and that event, fires no extra notification and        *)
(* appends nothing to memory.                                              *)
(* ---------------------------------------------------------------------- *)
HasOtherType(v) == v.kind = "object" /\ v.type \notin {"run.completed", "run.failed"}

\* C10: any other event type resolves with the placeholder, memory untouched
C10_OtherTypePlaceholder ==
  (Drained /\ HasOtherType(LastParsed(Consumed)))
  => /\ memory = InitialMemory
     /\ Len(notes) = read
     /\ outcome.status # "rejected"
     /\ pc \in {"classify", "done"}
     /\ pc = "done" =>
          /\ outcome.status = "resolved"
          /\ outcome.result = [role |-> "assistant", text |-> "No response from agent.", meta |-> JNull]
          /\ outcome.event = LastParsed(Consumed)

C10_Witness ==
  /\ Settled
  /\ ~cancelled
  /\ LastParsed(Consumed) = JEvent("run.in-progress", Undefined, <<>>)
  /\ outcome.status = "resolved"
  /\ outcome.result.text = NO_RESPONSE

(* ====================================================================== *)
(* RemoteAgent.checkAgentExists                                            *)
(* ====================================================================== *)
MaxAgents == 3      \* entries of the agents list the server returns

AgentNames == {"chat", "Chat", "chat2", "search"}
Agent(n) == [kind |-> "object", name |-> n]
NoAgent == [kind |-> "undefined", name |-> Undefined]
AgentLists == SeqsUpTo({Agent(n) : n \in AgentNames}, MaxAgents)
FetchErrors == {"fetch failed", "Internal Server Error"}

\* what reading .find of an absent agents property throws
NO_AGENTS_TYPEERROR == "Cannot read properties of undefined (reading 'find')"

\* find that looks at the first entry only
find_FirstOnly(agents, name) ==
  IF agents # <<>> /\ Head(agents).name = name THEN Head(agents) ELSE NoAgent

\* Array.prototype.find with (agent) => agent.name === name: the first match,
\* or undefined
RECURSIVE find(_, _)
find(agents, name) ==
  IF agents = <<>> THEN NoAgent
  ELSE IF Head(agents).name = name THEN Head(agents)
  ELSE find(Tail(agents), name)

\* !!x for x an agent object or undefined
NotNot(x) == x.kind # "undefined"

\* checkAgentExists() is called
CheckAgentExists ==
  /\ apc = "idle"
  /\ apc' = "fetch"
  /\ UNCHANGED <<fetched, exists>>
  /\ UNCHANGED <<runVars, finished, lateVars, maskVars, toolVars>>

\* await this.client.fetch("agents") resolves with a payload, whose agents
\* property is a list or is absent
FetchResolves ==
  /\ apc = "fetch"
  /\ \/ \E as \in AgentLists : fetched' = FetchResolved(as)
     \/ fetched' = FetchResolvedNoAgents
  /\ apc' = "find"
  /\ UNCHANGED exists
  /\ UNCHANGED <<runVars, finished, lateVars, maskVars, toolVars>>

\* await this.client.fetch("agents") rejects: control goes to the catch
FetchRejects ==
  /\ apc = "fetch"
  /\ \E m \in FetchErrors : fetched' = FetchRejected(m)
  /\ apc' = "catch"
  /\ UNCHANGED exists
  /\ UNCHANGED <<runVars, finished, lateVars, maskVars, toolVars>>

\* return !!response.agents.find(...)
FindAgent ==
  /\ apc = "find"
  /\ IF fetched.hasAgents
       THEN /\ exists' = CheckReturned(NotNot(find(fetched.agents, AgentName)))
            /\ apc' = "done"
            /\ UNCHANGED fetched
       ELSE /\ fetched' = [fetched EXCEPT !.message = NO_AGENTS_TYPEERROR]
            /\ apc' = "catch"
            /\ UNCHANGED exists
  /\ UNCHANGED <<runVars, finished, lateVars, maskVars, toolVars>>

\* catch (error) { throw new AgentError(..., [], { isFatal: true }) }
CatchAndWrap ==
  /\ apc = "catch"
  /\ exists' = CheckThrew(fetched.message)
  /\ apc' = "done"
  /\ UNCHANGED fetched
  /\ UNCHANGED <<runVars, finished, lateVars, maskVars, toolVars>>

NextLookup ==
  \/ CheckAgentExists
  \/ FetchResolves
  \/ FetchRejects
  \/ FindAgent
  \/ CatchAndWrap

SpecLookup == Init /\ [][NextLookup]_vars

(* ---------------------------------------------------------------------- *)
(* C11.  checkAgentExists returns true iff the fetched list has an entry   *)
(* named as configured, false for an empty or non-matching list, throws a  *)
(* wrapped fatal error when the fetch rejects, and never returns a value   *)
(* after a fetch failure.                                                  *)
(* ---------------------------------------------------------------------- *)
ListHasConfiguredName ==
  \E k \in 1..Len(fetched.agents) : fetched.agents[k].name = AgentName

\* C11: true iff a listed agent has the configured name; a rejected fetch
\* throws the wrapped fatal error and never returns
C11_CheckAgentExists ==
  /\ exists.status = "returned" =>
       /\ fetched.state = "resolved"
       /\ exists.value = ListHasConfiguredName
  /\ (apc = "done" /\ fetched.state = "resolved" /\ fetched.hasAgents) =>
       exists.status = "returned"
  /\ fetched.state = "rejected" =>
       /\ exists.status # "returned"
       /\ apc \in {"catch", "done"}
       /\ apc = "done" =>
            /\ exists.status = "threw"
            /\ exists.isFatal
            /\ exists.message = CHECK_PREFIX \o fetched.message

C11_Witness ==
  /\ apc = "done"
  /\ exists = CheckReturned(TRUE)
  /\ Len(fetched.agents) = 2
  /\ fetched.agents[1].name = "Chat"
  /\ fetched.agents[2].name = "chat"

(* ====================================================================== *)
(* The masking helpers at work                                             *)
(* ====================================================================== *)
\* encodeCustomMessage(msg) is called with a custom-role message
EncodeCustomMessage ==
  /\ mpc = "idle"
  /\ \E msg \in CustomMessages :
       /\ custom' = msg
       /\ wire' = encodeCustomMessage(msg)
  /\ mpc' = "encoded"
  /\ UNCHANGED <<before, decoded>>
  /\ UNCHANGED <<runVars, finished, lateVars, lookupVars, toolVars>>

\* a message arrives that encodeCustomMessage did not make
ReceiveMessage ==
  /\ mpc = "idle"
  /\ \E msg \in WireMessages : wire' = msg
  /\ mpc' = "received"
  /\ UNCHANGED <<custom, before, decoded>>
  /\ UNCHANGED <<runVars, finished, lateVars, lookupVars, toolVars>>

\* decodeCustomMessage is applied to the flattened content of the encoded
\* message (lines 91-96, 98)
DecodeEncoded ==
  /\ mpc = "encoded"
  /\ decoded' = decodeCustomMessage(Flatten(wire.content))
  /\ mpc' = "decoded"
  /\ UNCHANGED <<custom, before, wire>>
  /\ UNCHANGED <<runVars, finished, lateVars, lookupVars, toolVars>>

\* unmaskCustomMessage(msg) is called on the message
UnmaskCustomMessage ==
  /\ mpc \in {"encoded", "received"}
  /\ before' = wire
  /\ wire' = unmaskCustomMessage(wire)
  /\ mpc' = "unmasked"
  /\ UNCHANGED <<custom, decoded>>
  /\ UNCHANGED <<runVars, finished, lateVars, lookupVars, toolVars>>

NextMask ==
  \/ EncodeCustomMessage
  \/ ReceiveMessage
  \/ DecodeEncoded
  \/ UnmaskCustomMessage

SpecMask == Init /\ [][NextMask]_vars

(* ---------------------------------------------------------------------- *)
(* C12.  Encoding then decoding a custom-role message gives back its role  *)
(* and its content, for every role without '#', content being a string or  *)
(* an ordered list of parts.                                               *)
(* ---------------------------------------------------------------------- *)
\* A content given as a string is the content of one text part, and text
\* parts that are empty carry nothing: contents are compared without them.
AsContent(t) == IF t = EMPTY THEN <<>> ELSE <<TextPart(t)>>
NonEmptyPart(part) == part # TextPart(EMPTY)

\* C12: decode(encode(m)) is {role: m.role, content: m.content}
C12_RoundTrip ==
  mpc = "decoded" =>
    /\ decoded.defined
    /\ decoded.role = custom.role
    /\ AsContent(decoded.content) = SelectSeq(custom.content, NonEmptyPart)

(* ---------------------------------------------------------------------- *)
(* C13.  A user-role message whose content, flattened when it is a list of *)
(* parts, reads "#custom_role#<r>#<c>" is rewritten in place by unmask to   *)
(* role r and content c.                                                   *)
(* ---------------------------------------------------------------------- *)
StartsWith(t, prefix) ==
  Len(t) >= Len(prefix) /\ SubSeq(t, 1, Len(prefix)) = prefix

\* t reads MARK r "#" c, with r free of '#'
Reads(t, r, c) ==
  /\ t = MARK \o r \o <<HASH>> \o c
  /\ \A k \in 1..Len(r) : r[k] # HASH

\* the ways of cutting what follows the marker of t at a '#'
Cuts(t) ==
  {<<SubSeq(t, Len(MARK) + 1, k - 1), SubSeq(t, k + 1, Len(t))>> :
     k \in {j \in (Len(MARK) + 1)..Len(t) : t[j] = HASH}}

\* C13: content "#custom_role#<r>#<c>" of a user message becomes role r,
\* content c
C13_UnmaskRewrites ==
  (mpc = "unmasked" /\ before.role = USER /\ TruthyValue(before.content)) =>
    \A rc \in Cuts(Flatten(before.content)) :
      Reads(Flatten(before.content), rc[1], rc[2]) =>
        /\ wire.role = rc[1]
        /\ wire.content = StrValue(rc[2])
        /\ wire.text = before.text

C13_Witness ==
  /\ mpc = "unmasked"
  /\ before.role = USER
  /\ before.content = StrValue(MASKED_SYSTEM \o HI \o <<HASH>>)
  /\ wire.role = SYSTEM
  /\ wire.content = StrValue(HI \o <<HASH>>)

(* ---------------------------------------------------------------------- *)
(* C14.  unmask leaves every message alone that is not a masked user-role  *)
(* message: one whose role is not user, or whose text does not begin with  *)
(* "#custom_role#".                                                        *)
(* ---------------------------------------------------------------------- *)
\* none of the text-bearing properties of msg begins with the marker
NoMarkerPrefix(msg) ==
  \A k \in 1..Len(Keys) :
    TruthyValue(msg[Keys[k]]) => ~StartsWith(Flatten(msg[Keys[k]]), MARK)

\* C14: a message that is not user-role, or has no marker prefix, is unchanged
C14_UnmaskNoOp ==
  (mpc = "unmasked" /\ (before.role # USER \/ NoMarkerPrefix(before))) =>
    wire = before

(* ====================================================================== *)
(* One run of the Qdrant tool                                              *)
(* ====================================================================== *)
LIST_FAILED == "Failed to list collections from Qdrant: "

\* run(input) is called with an input the schema accepts
ToolRun ==
  /\ tpc = "idle"
  /\ \E inp \in ToolInputs : tinput' = inp
  /\ tpc' = "validate"
  /\ UNCHANGED <<calls, response, tresult>>
  /\ UNCHANGED <<runVars, finished, lateVars, lookupVars, maskVars>>

\* validateInput(schema, input): throws, or lets the run go on to _run
ValidateInput ==
  /\ tpc = "validate"
  /\ IF validateInput(tinput) = VALID
       THEN /\ tpc' = "run"
            /\ UNCHANGED tresult
       ELSE /\ tresult' = ToolRejected("ToolInputValidationError", validateInput(tinput))
            /\ tpc' = "done"
  /\ UNCHANGED <<tinput, calls, response>>
  /\ UNCHANGED <<runVars, finished, lateVars, lookupVars, maskVars>>

\* _run: the case of input.action throws its ToolError or calls the client
Dispatch ==
  /\ tpc = "run"
  /\ IF RunGuard(tinput) = VALID
       THEN /\ calls' = Append(calls, CallOf(tinput))
            /\ tpc' = "await"
            /\ UNCHANGED tresult
       ELSE /\ tresult' = ToolRejected("ToolError", RunGuard(tinput))
            /\ tpc' = "done"
            /\ UNCHANGED calls
  /\ UNCHANGED <<tinput, response>>
  /\ UNCHANGED <<runVars, finished, lateVars, lookupVars, maskVars>>

\* the client's promise resolves and _run returns the JSONToolOutput
ClientResolves ==
  /\ tpc = "await"
  /\ \E r \in Responses :
       /\ response' = r
       /\ tresult' = IF tinput.action = "ListCollections"
                       THEN JSONToolOutputNames(NamesOf(r))
                       ELSE JSONToolOutput(r)
  /\ tpc' = "done"
  /\ UNCHANGED <<tinput, calls>>
  /\ UNCHANGED <<runVars, finished, lateVars, lookupVars, maskVars>>

\* the client's promise rejects: listCollections wraps the error, the other
\* methods let it through
ClientRejects ==
  /\ tpc = "await"
  /\ \E e \in ClientErrors :
       tresult' = IF tinput.action = "ListCollections"
                    THEN ToolRejected("ToolError", LIST_FAILED \o e)
                    ELSE ToolRejected("Error", e)
  /\ tpc' = "done"
  /\ UNCHANGED <<tinput, calls, response>>
  /\ UNCHANGED <<runVars, finished, lateVars, lookupVars, maskVars>>

NextTool ==
  \/ ToolRun
  \/ ValidateInput
  \/ Dispatch
  \/ ClientResolves
  \/ ClientRejects

SpecTool == Init /\ [][NextTool]_vars

(* ---------------------------------------------------------------------- *)
(* C15.  The tool validates before it delegates: without a collection name *)
(* every action but ListCollections is rejected with the collection-name   *)
(* error, also when the vector or the vectors are missing too; Search with *)
(* a name and no vector, and Insert with a name and no vectors, are        *)
(* rejected with their own errors; no rejected run calls the client.       *)
(* ---------------------------------------------------------------------- *)
HasName == tinput.collectionName \notin {Undefined, ""}
Validated == tpc \in {"run", "await", "done"}
Delegated == tpc \in {"await", "done"} /\ tresult.error \notin {"ToolInputValidationError", "ToolError"}

RejectedWith(msg) ==
  /\ tpc = "done"
  /\ tresult.status = "rejected"
  /\ tresult.error = "ToolInputValidationError"
  /\ tresult.message = msg
  /\ calls = <<>>

\* C15: the validation errors, the name error first, and no client call
C15_ValidatesBeforeDelegating ==
  /\ tpc \in {"idle", "validate", "run"} => calls = <<>>
  /\ Validated =>
       /\ (tinput.action # "ListCollections" /\ ~HasName) =>
            RejectedWith(COLLECTION_REQUIRED)
       /\ (tinput.action = "Search" /\ HasName /\ ~tinput.vector.given) =>
            RejectedWith(VECTOR_REQUIRED)
       /\ (tinput.action = "Insert" /\ HasName /\ ~tinput.vectors.given) =>
            RejectedWith(VECTORS_REQUIRED)
       /\ tresult.error = "ToolInputValidationError" => calls = <<>>

C15_Witness ==
  /\ tpc = "done"
  /\ tinput.action = "Search"
  /\ tinput.collectionName = ""
  /\ ~tinput.vector.given
  /\ tresult = ToolRejected("ToolInputValidationError", COLLECTION_REQUIRED)

(* ---------------------------------------------------------------------- *)
(* C16.  A valid Insert makes exactly one upsert on the named collection,  *)
(* with one point per vector in vector order; point i has vectors[i], the  *)
(* caller's ids[i] when given and payload[i] when given, an empty payload  *)
(* otherwise; the result is the client's response.                         *)
(* ---------------------------------------------------------------------- *)
ValidInsert == tinput.action = "Insert" /\ HasName /\ tinput.vectors.given

\* C16: the points of the one upsert are index-aligned with the input
C16_InsertAligned ==
  (ValidInsert /\ Delegated) =>
    /\ Len(calls) = 1
    /\ calls[1].method = "upsert"
    /\ calls[1].collection = tinput.collectionName
    /\ Len(calls[1].points) = Len(tinput.vectors.value)
    /\ \A k \in 1..Len(tinput.vectors.value) :
         /\ calls[1].points[k].vector = tinput.vectors.value[k]
         /\ IF tinput.ids.given /\ k <= Len(tinput.ids.value)
              THEN calls[1].points[k].id = tinput.ids.value[k]
              ELSE calls[1].points[k].id.kind = "uuid"
         /\ IF tinput.payload.given /\ k <= Len(tinput.payload.value)
              THEN calls[1].points[k].payload = tinput.payload.value[k]
              ELSE calls[1].points[k].payload = {}
    /\ (tpc = "done" /\ tresult.status = "resolved") => tresult.value = response

C16_Witness ==
  /\ tpc = "done"
  /\ tresult.status = "resolved"
  /\ tinput.action = "Insert"
  /\ tinput.vectors = Given(<< <<1>>, <<2, 3>> >>)
  /\ tinput.ids = Given(<<NumId(0)>>)
  /\ tinput.payload = Given(<<{<<"city", "Berlin">>}, {}>>)
  /\ calls[1].points[1].id = NumId(0)
  /\ calls[1].points[2].id.kind = "uuid"
  /\ tresult.value = Response("acknowledged", <<"test", "docs">>)

(* ---------------------------------------------------------------------- *)
(* C17.  A valid Search makes exactly one query on the named collection    *)
(* with query = the input vector, with_payload = true and limit = topK for *)
(* every integer topK supplied, 10 when none is; the result is the         *)
(* client's response.                                                      *)
(* ---------------------------------------------------------------------- *)
ValidSearch == tinput.action = "Search" /\ HasName /\ tinput.vector.given

\* C17: limit is the topK supplied, or 10 without one
C17_SearchLimit ==
  (ValidSearch /\ Delegated) =>
    /\ Len(calls) = 1
    /\ calls[1].method = "query"
    /\ calls[1].collection = tinput.collectionName
    /\ calls[1].query = tinput.vector
    /\ calls[1].with_payload
    /\ calls[1].limit = IF tinput.topK.given THEN tinput.topK.value ELSE DEFAULT_LIMIT
    /\ (tpc = "done" /\ tresult.status = "resolved") => tresult.value = response

(* ---------------------------------------------------------------------- *)
(* C19.  A run whose last event is run.failed delivers exactly one more    *)
(* "error" notification, carrying the embedded message or the default,     *)
(* after all per-frame notifications and before the call rejects; the      *)
(* rejection carries the same message.                                     *)
(* ---------------------------------------------------------------------- *)
\* the notification of frame k, from the frame alone
NoteOfFrame(k) ==
  IF IsJSON(stream[k]) THEN ExpectedFrameNote(stream[k].data.denotes)
                       ELSE ErrorNote(PARSE_ERROR)

EndedFailed == Drained /\ Classification(LastParsed(Consumed)) = "failed"

\* C19: one "error" notification after the per-frame ones, then the rejection
\* with the same message
C19_FailureNotified ==
  EndedFailed =>
    /\ pc \in {"classify", "throw", "done"}
    /\ \A k \in 1..read : notes[k] = NoteOfFrame(k)
    /\ pc = "classify" => (Len(notes) = read /\ outcome = Pending)
    /\ pc \in {"throw", "done"} =>
         /\ Len(notes) = read + 1
         /\ notes[read + 1] = ErrorNote(EmbeddedMessage(LastParsed(Consumed)))
    /\ pc = "throw" => outcome = Pending
    /\ pc = "done" => outcome = Rejected(EmbeddedMessage(LastParsed(Consumed)))

C19_Witness ==
  /\ pc = "done"
  /\ read = 2
  /\ stream[2] = Frame(JEvent("run.failed", "boom", <<>>))
  /\ Len(notes) = 3
  /\ notes[3] = ErrorNote("boom")
  /\ outcome = Rejected("boom")

(* ---------------------------------------------------------------------- *)
(* C20.  Each run issues exactly one streaming request to the runs         *)
(* endpoint, before any notification, carrying the configured agent name,  *)
(* mode "stream" and one wire message per input in input order (a string   *)
(* as a user-role part, a message with its role and content); the request  *)
(* is never issued again, whatever the outcome.                            *)
(* ---------------------------------------------------------------------- *)
\* the wire message of an input, from its shape alone
AsWireMessage(x) ==
  [parts |-> << [content |-> x.content,
                 role |-> IF x.isString THEN "user" ELSE x.role] >>]

C20_Inv ==
  /\ pc = "idle" => (requests = <<>> /\ notes = <<>>)
  /\ pc # "idle" =>
       /\ Len(requests) = 1
       /\ requests[1].path = "runs"
       /\ requests[1].body.wellFormed
       /\ requests[1].body.denotes.agent_name = "chat"
       /\ requests[1].body.denotes.mode = "stream"
       /\ Len(requests[1].body.denotes.input) = NInputs
       /\ \A k \in 1..NInputs :
            requests[1].body.denotes.input[k] = AsWireMessage(input.items[k])

C20_Step == requests' # requests => (requests = <<>> /\ notes = <<>> /\ notes' = <<>>)

\* C20: one request per run, made before the first notification, never again
C20_OneStreamingRequest == []C20_Inv /\ [][C20_Step]_vars

C20_Witness ==
  /\ pc = "done"
  /\ outcome.status = "rejected"
  /\ input = [isArray |-> TRUE, items |-> <<Msg("system", "be brief"), Str("hi")>>]
  /\ Len(notes) = 2
  /\ Len(requests) = 1

(* ====================================================================== *)
(* Runs one after the other on one memory (examples/agents/experimental/   *)
(* remote.ts: each prompt awaits its run before the next is read)          *)
(* ====================================================================== *)
MaxRuns == 3        \* runs made on the memory

TurnInputs ==
  {[isArray |-> FALSE, items |-> <<Str("hi")>>],
   [isArray |-> TRUE, items |-> <<Msg("system", "be brief"), Str("hi")>>]}

TurnStreams ==
  {<<>>,
   <<Frame(JEvent("run.completed", Undefined, OutHello))>>,
   <<Frame(JEvent("run.completed", Undefined, OutABC)), Malformed>>,
   <<Frame(JEvent("run.failed", "boom", <<>>))>>,
   <<Frame(JEvent("run.in-progress", Undefined, <<>>))>>}

\* what is kept of a settled run: its input, the frames it read, and whether
\* the sequence ended with a transport error
RunRecord == [input |-> input, consumed |-> Consumed, transportError |-> ~Settled]

\* instance.run({ input: prompt }) of one turn of the loop
RunTurn ==
  /\ pc = "idle"
  /\ \E inp \in TurnInputs, sent \in TurnStreams : RunWith(inp, sent)

\* the run has settled and the loop reads the next prompt: what the run held
\* is gone, the agent and its memory stay
NextPrompt ==
  /\ pc = "done"
  /\ Len(finished) + 1 < MaxRuns
  /\ finished' = Append(finished, RunRecord)
  /\ pc' = "idle"
  /\ input' = [isArray |-> TRUE, items |-> <<>>]
  /\ stream' = <<>>
  /\ read' = 0
  /\ eventData' = JNull
  /\ notes' = <<>>
  /\ cancelled' = FALSE
  /\ i' = 0
  /\ outcome' = Pending
  /\ UNCHANGED <<requests, memory>>
  /\ UNCHANGED <<lookupVars, maskVars, toolVars, lateVars>>

NextRuns ==
  \/ RunTurn
  \/ LoopBody
  \/ StreamEnd
  \/ Cancel
  \/ StreamError
  \/ NoEvent
  \/ Failed
  \/ Throw
  \/ Completed
  \/ AddMany
  \/ Add
  \/ Return
  \/ Other
  \/ NextPrompt

SpecRuns == Init /\ [][NextRuns]_vars

(* ---------------------------------------------------------------------- *)
(* C18.  After any sequence of runs made one after the other, memory is    *)
(* its initial content followed, in run order, by one block (the inputs,   *)
(* then the assistant message) for each run that ended in run.completed;   *)
(* the other runs add nothing, and no step removes, reorders or rewrites   *)
(* an entry.                                                               *)
(* ---------------------------------------------------------------------- *)
\* the block a settled run leaves in memory
BlockOf(run) ==
  IF ~run.transportError /\ Classification(LastParsed(run.consumed)) = "completed"
    THEN [k \in 1..Len(run.input.items) |-> AsDomainMessage(run.input.items[k])]
           \o <<ExpectedAssistant(LastParsed(run.consumed))>>
    ELSE <<>>

RECURSIVE BlocksOf(_)
BlocksOf(runs) ==
  IF runs = <<>> THEN <<>> ELSE BlocksOf(SubSeq(runs, 1, Len(runs) - 1)) \o BlockOf(runs[Len(runs)])

IsPrefix(s, t) == Len(s) <= Len(t) /\ SubSeq(t, 1, Len(s)) = s

C18_Inv ==
  /\ IsPrefix(InitialMemory \o BlocksOf(finished), memory)
  /\ pc \in {"idle", "stream"} => memory = InitialMemory \o BlocksOf(finished)
  /\ pc = "done" => memory = InitialMemory \o BlocksOf(Append(finished, RunRecord))

C18_Step == IsPrefix(memory, memory')

\* C18: memory is the initial content and the blocks of the completed runs,
\* and every step only appends
C18_SequentialRuns == []C18_Inv /\ [][C18_Step]_vars

C18_Witness ==
  /\ Len(finished) = 2
  /\ pc = "done"
  /\ Classification(LastParsed(finished[1].consumed)) = "completed"
  /\ ~finished[2].transportError
  /\ Classification(LastParsed(finished[2].consumed)) = "failed"
  /\ Classification(LastParsed(Consumed)) = "completed"
  /\ Len(finished[1].input.items) = 2
  /\ Len(memory) = Len(InitialMemory) + 3 + NInputs + 1

(* ====================================================================== *)
(* Two agents run at the same time on one memory: each run is a chain of   *)
(* awaits, and the steps of the two chains interleave                      *)
(* ====================================================================== *)
runLocals == <<pc, input, requests, stream, read, eventData, notes, cancelled, i, outcome>>

\* run r has drained its stream with run.completed last and has built its
\* assistant message and input messages (lines 107-116)
CompletedOf(r) ==
  /\ overlap[r].pc = "idle"
  /\ \E inp \in OverlapInputs, ed \in OverlapEvents :
       overlap' = [overlap EXCEPT ![r] = Holding("addMany", inp, ed, 0)]
  /\ UNCHANGED memory
  /\ UNCHANGED <<runLocals, finished, lookupVars, maskVars, toolVars, fetchVars>>

\* await this.memory.addMany(inputMessages) of run r: one add per message
AddManyOf(r) ==
  /\ overlap[r].pc = "addMany"
  /\ overlap[r].i < Len(inputMessages(overlap[r].input))
  /\ memory' = MemoryAdd(memory, inputMessages(overlap[r].input)[overlap[r].i + 1])
  /\ overlap' = [overlap EXCEPT ![r].i = overlap[r].i + 1]
  /\ UNCHANGED <<runLocals, finished, lookupVars, maskVars, toolVars, fetchVars>>

\* the add of run r that does not wait for addMany to finish
AddOf_NoAwait(r) ==
  /\ overlap[r].pc = "addMany"
  /\ memory' = MemoryAdd(memory, assistantMessage(overlap[r].eventData))
  /\ overlap' = [overlap EXCEPT ![r].pc = "return"]
  /\ UNCHANGED <<runLocals, finished, lookupVars, maskVars, toolVars, fetchVars>>

\* await this.memory.add(assistantMessage) of run r, once addMany is through
AddOf(r) ==
  /\ overlap[r].pc = "addMany"
  /\ overlap[r].i = Len(inputMessages(overlap[r].input))
  /\ memory' = MemoryAdd(memory, assistantMessage(overlap[r].eventData))
  /\ overlap' = [overlap EXCEPT ![r].pc = "return"]
  /\ UNCHANGED <<runLocals, finished, lookupVars, maskVars, toolVars, fetchVars>>

\* return { result: assistantMessage, event: eventData } of run r
ReturnOf(r) ==
  /\ overlap[r].pc = "return"
  /\ overlap' = [overlap EXCEPT ![r].pc = "done"]
  /\ UNCHANGED memory
  /\ UNCHANGED <<runLocals, finished, lookupVars, maskVars, toolVars, fetchVars>>

NextOverlap ==
  \/ \E r \in RunIds : CompletedOf(r)
  \/ \E r \in RunIds : AddManyOf(r)
  \/ \E r \in RunIds : AddOf(r)
  \/ \E r \in RunIds : ReturnOf(r)

SpecOverlap == Init /\ [][NextOverlap]_vars

(* ---------------------------------------------------------------------- *)
(* C21.  When two runs on one memory overlap and both complete, under      *)
(* every interleaving no message is lost or duplicated, each run's input   *)
(* messages keep their order and precede that run's assistant message,     *)
(* and no entry already appended is altered; the blocks of the two runs    *)
(* need not be contiguous.                                                 *)
(* ---------------------------------------------------------------------- *)
\* the messages run r is to leave in memory, in its own order
BlockOfRun(r) ==
  [k \in 1..Len(overlap[r].input.items) |-> AsDomainMessage(overlap[r].input.items[k])]
    \o <<ExpectedAssistant(overlap[r].eventData)>>

\* m holds exactly the entries of a and of b, each in its own order
RECURSIVE IsMerge(_, _, _)
IsMerge(m, a, b) ==
  IF m = <<>> THEN a = <<>> /\ b = <<>>
  ELSE \/ (a # <<>> /\ Head(m) = Head(a) /\ IsMerge(Tail(m), Tail(a), b))
       \/ (b # <<>> /\ Head(m) = Head(b) /\ IsMerge(Tail(m), a, Tail(b)))

Appended == SubSeq(memory, Len(InitialMemory) + 1, Len(memory))
BothDone == \A r \in RunIds : overlap[r].pc = "done"
Started(r) == overlap[r].pc # "idle"

C21_Inv ==
  /\ IsPrefix(InitialMemory, memory)
  /\ BothDone => IsMerge(Appended, BlockOfRun(1), BlockOfRun(2))
  /\ (\A r \in RunIds : Started(r)) =>
       \E a \in 0..Len(BlockOfRun(1)), b \in 0..Len(BlockOfRun(2)) :
         IsMerge(Appended, SubSeq(BlockOfRun(1), 1, a), SubSeq(BlockOfRun(2), 1, b))

C21_Step == IsPrefix(memory, memory')

VercelFetch ==
  /\ fpc = "idle"
  /\ \E req \in Requests :
       /\ request' = req
       /\ options' = req.options
  /\ fpc' = "check"
  /\ UNCHANGED <<forwarded, fresult>>
  /\ UNCHANGED <<runVars, finished, lookupVars, maskVars, toolVars, overlap>>

\* lines 109-125: a string body sent as application/json is parsed, its
\* messages are unmasked and it is written back; JSON.parse may throw
RewriteBody ==
  /\ fpc = "check"
  /\ IF ~IsJSONString(options)
       THEN /\ fpc' = "forward"
            /\ UNCHANGED <<options, fresult>>
       ELSE IF JSONparse(options.body.text).threw
         THEN /\ fresult' = FetchSettled("rejected", JSON_SYNTAX_ERROR)
              /\ fpc' = "done"
              /\ UNCHANGED options
         ELSE /\ options' = [options EXCEPT !.body =
                   StringBody(JSONstringify(Unmasked(JSONparse(options.body.text).value)))]
              /\ fpc' = "forward"
              /\ UNCHANGED fresult
  /\ UNCHANGED <<request, forwarded>>
  /\ UNCHANGED <<runVars, finished, lookupVars, maskVars, toolVars, overlap>>

\* fetcher(url, options)
Forward ==
  /\ fpc = "forward"
  /\ forwarded' = Append(forwarded, Request(request.url, options))
  /\ fpc' = "await"
  /\ UNCHANGED <<request, options, fresult>>
  /\ UNCHANGED <<runVars, finished, lookupVars, maskVars, toolVars, overlap>>

\* return await fetcher(...): the underlying fetch resolves or rejects
FetcherSettles ==
  /\ fpc = "await"
  /\ \E st \in {"resolved", "rejected"} : fresult' = FetchSettled(st, "from fetch")
  /\ fpc' = "done"
  /\ UNCHANGED <<request, options, forwarded>>
  /\ UNCHANGED <<runVars, finished, lookupVars, maskVars, toolVars, overlap>>

NextFetch ==
  \/ VercelFetch
  \/ RewriteBody
  \/ Forward
  \/ FetcherSettles

SpecFetch == Init /\ [][NextFetch]_vars

(* ---------------------------------------------------------------------- *)
(* C22.  vercelFetcher forwards every request exactly once to the          *)
(* underlying fetch with the same URL and options; it changes the body     *)
(* only when the body is a string sent as application/json whose parsed    *)
(* value has a messages array, and then only by unmasking each masked      *)
(* user-role message of that array; any other body arrives unchanged.      *)
(* ---------------------------------------------------------------------- *)
SentAsJSON ==
  /\ request.options.given
  /\ request.options.body.kind = "string"
  /\ request.options.headers.key \in {"content-type", "Content-Type"}
  /\ request.options.headers.value = "application/json"

HasMessagesArray ==
  /\ request.options.body.text.wellFormed
  /\ request.options.body.text.denotes.kind = "object"
  /\ request.options.body.text.denotes.hasMessages

\* a user-role message whose content begins with the marker
IsMaskedEntry(e) ==
  /\ e.plain
  /\ e.msg.role = USER
  /\ TruthyValue(e.msg.content)
  /\ StartsWith(Flatten(e.msg.content), MARK)

\* the entry as it is to arrive: a masked one with its role and content,
\* any other one as it was
ExpectedEntry(e) ==
  IF IsMaskedEntry(e)
    THEN LET t == Flatten(e.msg.content)
             rc == CHOOSE c \in Cuts(t) : Reads(t, c[1], c[2])
         IN PlainMessage([e.msg EXCEPT !.role = rc[1], !.content = StrValue(rc[2])])
    ELSE e

ExpectedMessages ==
  [k \in 1..Len(request.options.body.text.denotes.messages) |->
     ExpectedEntry(request.options.body.text.denotes.messages[k])]

Settling == fpc \in {"await", "done"}

\* C22: one call of the underlying fetch, same url and options, the body
\* changed only by unmasking the masked messages of a JSON messages array
C22_ForwardsOnce ==
  /\ fpc \in {"idle", "check", "forward"} => forwarded = <<>>
  /\ Settling =>
       /\ Len(forwarded) = 1
       /\ forwarded[1].url = request.url
       /\ forwarded[1].options.given = request.options.given
       /\ forwarded[1].options.headers = request.options.headers
       /\ IF SentAsJSON /\ HasMessagesArray
            THEN /\ forwarded[1].options.body.kind = "string"
                 /\ forwarded[1].options.body.text.wellFormed
                 /\ forwarded[1].options.body.text.denotes =
                      [request.options.body.text.denotes EXCEPT !.messages = ExpectedMessages]
            ELSE forwarded[1].options.body = request.options.body

====
